---- MODULE Spec2Model ----
(***************************************************************************)
(* Model of the local_calendar platform (src/local_calendar/calendar.py):  *)
(* the read-only / remote / local calendar entities, their refresh and     *)
(* mutation coroutines (one action per run of synchronous code between two *)
(* awaits), and the display normalisation of events.                       *)
(***************************************************************************)
EXTENDS Integers, Sequences, FiniteSets, TLC

VARIABLES
    kind,        \* "remote" when the config entry has a url, else "local"
    setup,       \* async_setup_entry: "unset", at its await "load" or
                 \* "parse", then "ready" or "failed"
    ics,         \* the local ics of async_setup_entry (None until loaded)
    calendar,    \* the entity's _calendar (None or a Calendar)
    _event,      \* the entity's _event, the published next event
    etag,        \* RemoteCalendarEntity._etag ("None" when unset)
    trackFetch,  \* RemoteCalendarEntity._track_fetch: "None", "active", "cancelled"
    removed,     \* async_will_remove_from_hass has run
    persisted,   \* the text the persistence collaborator holds
    loadCalls,   \* calls of store.async_load
    tasks,       \* the coroutines of the entity, each at an await or finished
    returned,    \* what the query that just ran returned
    dispEvent,   \* the stored Event handed to _get_calendar_event
    dispOut,     \* the CalendarEvent it returned (None before the call)
    entries,     \* the config entries of the domain, in the order created
    flowResult   \* the result of the last step of a config flow

vars == <<kind, setup, ics, calendar, _event, etag, trackFetch, removed,
          persisted, loadCalls, tasks, returned, dispEvent, dispOut,
          entries, flowResult>>

entityVars == <<kind, setup, ics, calendar, _event, etag, trackFetch, removed,
                persisted, loadCalls, tasks, returned>>

(***************************************************************************)
(* Values                                                                  *)
(***************************************************************************)
\* Python's None, as a record so that it compares with records.
None == [none |-> TRUE]

PRODID == "-//homeassistant.io//local_calendar 1.0//EN"

\* timedelta(minutes=30), in minutes
ThirtyMinutes == 30
\* timedelta(days=1), in days
OneDay == 1

\* ---- bounds of the model ----
\* date-times are drawn from 0, 15, ..., 15 * MaxSlot minutes
MaxSlot == 4
\* dates are drawn from day 0 .. MaxDay
MaxDay == 3
\* uids are drawn from 1 .. MaxUid
MaxUid == 4
\* a recurrence rule is expanded to at most MaxOcc occurrences
MaxOcc == 3
\* service calls / timer ticks of one run: tasks 1 .. MaxTasks
MaxTasks == 2
\* at most MaxEntries config entries are created
MaxEntries == 2

(***************************************************************************)
(* Dates and date-times.  A date is [kind "date", d] with d in days; a     *)
(* date-time is [kind "datetime", t, tz] with t the wall-clock minutes and *)
(* tz "floating" (naive) or the name of a zone.                            *)
(***************************************************************************)
Date(d) == [kind |-> "date", d |-> d]
DateTime(t, tz) == [kind |-> "datetime", t |-> t, tz |-> tz]

\* UTC offset in minutes of the zones of the model; "local" is the host's
\* default time zone (dt_util.DEFAULT_TIME_ZONE).
UtcOffset(tz) ==
    CASE tz = "utc" -> 0
      [] tz = "east" -> 120
      [] tz = "local" -> 60

\* isinstance(value, datetime)
IsDateTime(v) == v.kind = "datetime"

\* dt_util.as_local: a naive value is taken to be local time, an aware one is
\* converted to the default time zone.
as_local(v) ==
    IF v.tz = "floating"
    THEN DateTime(v.t, "local")
    ELSE DateTime(v.t - UtcOffset(v.tz) + UtcOffset("local"), "local")

\* event.rrule.as_rrule_str(): the RRULE text as its list of tokens
as_rrule_str(rrule) ==
    <<"FREQ", rrule.freq>>
      \o (IF rrule.count # 0 THEN <<"COUNT", rrule.count>> ELSE <<>>)
      \o (IF rrule.until # None THEN <<"UNTIL", rrule.until>> ELSE <<>>)

(***************************************************************************)
(* _get_calendar_event                                                     *)
(***************************************************************************)
\* the off-by-one a comparison slip gives: "<" for "<=" in the date-time
\* branch
_get_calendar_event_strict(event) ==
    LET bothDt == IsDateTime(event.start) /\ IsDateTime(event.end)
        start == IF bothDt THEN as_local(event.start) ELSE event.start
        end0  == IF bothDt THEN as_local(event.end) ELSE event.end
        end   == IF bothDt
                 THEN IF end0.t - start.t < 0
                      THEN DateTime(start.t + ThirtyMinutes, start.tz)
                      ELSE end0
                 ELSE IF end0.d - start.d < 0
                      THEN Date(start.d + OneDay)
                      ELSE end0
    IN  [summary |-> event.summary, start |-> start, end |-> end,
         uid |-> event.uid,
         rrule |-> IF event.rrule # None THEN as_rrule_str(event.rrule) ELSE <<>>,
         recurrence_id |-> event.recurrence_id]

_get_calendar_event(event) ==
    LET bothDt == IsDateTime(event.start) /\ IsDateTime(event.end)
        start == IF bothDt THEN as_local(event.start) ELSE event.start
        end0  == IF bothDt THEN as_local(event.end) ELSE event.end
        end   == IF bothDt
                 THEN IF end0.t - start.t <= 0
                      THEN DateTime(start.t + ThirtyMinutes, start.tz)
                      ELSE end0
                 ELSE IF end0.d - start.d < 0
                      THEN Date(start.d + OneDay)
                      ELSE end0
    IN  [summary |-> event.summary, start |-> start, end |-> end,
         uid |-> event.uid,
         rrule |-> IF event.rrule # None THEN as_rrule_str(event.rrule) ELSE <<>>,
         recurrence_id |-> event.recurrence_id]


(***************************************************************************)
(* Events, series and the calendar aggregate (spec.md section 3).  An      *)
(* Event is [uid, summary, start, end, rrule, recurrence_id]; description  *)
(* and location are carried like summary and are left out.  A rule is      *)
(* [freq, count, until] with count 0 / until None for "not given".         *)
(***************************************************************************)
Uids == 1..MaxUid

Event(uid, summary, start, end, rrule, rid) ==
    [uid |-> uid, summary |-> summary, start |-> start, end |-> end,
     rrule |-> rrule, recurrence_id |-> rid]

Daily(count, until) == [freq |-> "DAILY", count |-> count, until |-> until]

\* A series: the master, the overrides (Events with a recurrence_id) and the
\* excluded recurrence-ids.
Series(master, overrides, exdates) ==
    [master |-> master, overrides |-> overrides, exdates |-> exdates]

\* A calendar: the product identifier and the series keyed by uid.
Calendar(prodid, series) == [prodid |-> prodid, series |-> series]

MinutesPerDay == 24 * 60

\* The local wall-clock minute a date or date-time is compared at (a date is
\* local midnight, a naive date-time is local time).
LocalWall(v) == IF v.kind = "date" THEN v.d * MinutesPerDay ELSE as_local(v).t

\* v moved by k days
Shift(v, k) ==
    IF v.kind = "date" THEN Date(v.d + k)
    ELSE DateTime(v.t + k * MinutesPerDay, v.tz)

(***************************************************************************)
(* Serialization codec (spec.md 4.5).  ICS text is [valid, prodid, comps]: *)
(* comps is the list of series in the order they are written.              *)
(***************************************************************************)
RECURSIVE SortedUids(_)
SortedUids(S) ==
    IF S = {} THEN <<>>
    ELSE LET m == CHOOSE x \in S : \A y \in S : x <= y
         IN  <<m>> \o SortedUids(S \ {m})

\* IcsCalendarStream.calendar_to_ics: components ordered by uid, the product
\* identifier stamped.
calendar_to_ics(cal) ==
    LET order == SortedUids(DOMAIN cal.series)
    IN  [valid |-> TRUE, prodid |-> cal.prodid,
         comps |-> [i \in 1..Len(order) |-> cal.series[order[i]]]]

\* whether IcsCalendarStream.calendar_from_ics raises CalendarParseError
ParseFails(text) == ~text.valid

\* IcsCalendarStream.calendar_from_ics on well-formed text
calendar_from_ics(text) ==
    LET uids == {text.comps[i].master.uid : i \in 1..Len(text.comps)}
    IN  Calendar(text.prodid,
                 [u \in uids |->
                    text.comps[CHOOSE i \in 1..Len(text.comps) :
                                 text.comps[i].master.uid = u]])

EmptyText == [valid |-> TRUE, prodid |-> "", comps |-> <<>>]
BadText == [valid |-> FALSE, prodid |-> "", comps |-> <<>>]

(***************************************************************************)
(* Recurrence engine and timeline (spec.md 4.1, 4.3)                       *)
(***************************************************************************)
\* the indexes k of the occurrences start + k days the rule of master yields
RuleIndexes(master) ==
    IF master.rrule = None THEN {0}
    ELSE {k \in 0..(MaxOcc - 1) :
            /\ master.rrule.count # 0 => k < master.rrule.count
            /\ master.rrule.until # None =>
                 LocalWall(Shift(master.start, k)) <= LocalWall(master.rrule.until)}

\* the recurrence-ids of a series: the original starts of its occurrences
RecurrenceIds(s) ==
    IF s.master.rrule = None THEN {}
    ELSE {Shift(s.master.start, k) : k \in RuleIndexes(s.master)}

\* the occurrences of one series: expansion, minus exclusions, overrides
\* substituted
SeriesOccurrences(s) ==
    IF s.master.rrule = None THEN {s.master}
    ELSE LET live == RecurrenceIds(s) \ s.exdates
             expanded(k) ==
                 [s.master EXCEPT !.start = Shift(s.master.start, k),
                                  !.end = Shift(s.master.end, k),
                                  !.recurrence_id = Shift(s.master.start, k)]
             at(rid) ==
                 IF \E o \in s.overrides : o.recurrence_id = rid
                 THEN CHOOSE o \in s.overrides : o.recurrence_id = rid
                 ELSE expanded(CHOOSE k \in RuleIndexes(s.master) :
                                 Shift(s.master.start, k) = rid)
         IN  {at(rid) : rid \in live}

Occurrences(cal) ==
    UNION {SeriesOccurrences(cal.series[u]) : u \in DOMAIN cal.series}

\* the order of the timeline: start, then uid, then recurrence-id
RidKey(o) == IF o.recurrence_id = None THEN 0 ELSE LocalWall(o.recurrence_id)
Before(o1, o2) ==
    \/ LocalWall(o1.start) < LocalWall(o2.start)
    \/ /\ LocalWall(o1.start) = LocalWall(o2.start)
       /\ \/ o1.uid < o2.uid
          \/ o1.uid = o2.uid /\ RidKey(o1) <= RidKey(o2)

RECURSIVE InOrder(_)
InOrder(S) ==
    IF S = {} THEN <<>>
    ELSE LET m == CHOOSE x \in S : \A y \in S : x = y \/ Before(x, y)
         IN  <<m>> \o InOrder(S \ {m})

\* whether the timespan [s1, e1) of an occurrence intersects [s2, e2)
intersects(s1, e1, s2, e2) ==
    \/ s2 <= s1 /\ s1 < e2
    \/ s2 < e1 /\ e1 <= e2
    \/ s1 <= s2 /\ s2 < e1
    \/ s1 < e2 /\ e2 <= e1

\* Timeline.overlapping(start, end)
overlapping(cal, a, b) ==
    InOrder({o \in Occurrences(cal) :
               intersects(LocalWall(o.start), LocalWall(o.end),
                          LocalWall(a), LocalWall(b))})

\* Timeline.active_after(now)
active_after(cal, now) ==
    InOrder({o \in Occurrences(cal) :
               \/ LocalWall(o.start) > LocalWall(now)
               \/ LocalWall(o.end) > LocalWall(now)})

(***************************************************************************)
(* Event Store (spec.md 4.4).  Each operation returns [ok, err, cal]: the  *)
(* calendar after it, or the error and the calendar as it was.             *)
(***************************************************************************)
WithSeries(series, uid, s) ==
    [u \in (DOMAIN series) \cup {uid} |-> IF u = uid THEN s ELSE series[u]]

WithoutSeries(series, uid) == [u \in (DOMAIN series) \ {uid} |-> series[u]]

Applied(cal) == [ok |-> TRUE, err |-> "", cal |-> cal]
Rejected(err, cal) == [ok |-> FALSE, err |-> err, cal |-> cal]

\* EventStore.add
EventStore_add(cal, ev) ==
    IF ev.uid \in DOMAIN cal.series
    THEN Rejected("DuplicateUidError", cal)
    ELSE Applied([cal EXCEPT !.series = WithSeries(cal.series, ev.uid, Series(ev, {}, {}))])

\* why delete / edit reject (uid, recurrence_id, range), "" when they do not
StoreError(cal, uid, rid, range) ==
    IF uid \notin DOMAIN cal.series THEN "EventNotFoundError"
    ELSE IF range = "THIS_AND_FUTURE" /\ rid = None THEN "InvalidRangeError"
    ELSE IF rid # None
            /\ rid \notin (RecurrenceIds(cal.series[uid]) \ cal.series[uid].exdates)
         THEN "EventNotFoundError"
    ELSE ""

\* the series cut so that it ends strictly before the occurrence rid:
\* an until-bound rewrite, overrides and exclusions at or after rid dropped
Truncated(s, rid) ==
    Series([s.master EXCEPT !.rrule = Daily(0, Shift(rid, -1))],
           {o \in s.overrides : LocalWall(o.recurrence_id) < LocalWall(rid)},
           {x \in s.exdates : LocalWall(x) < LocalWall(rid)})

\* EventStore.delete
EventStore_delete(cal, uid, rid, range) ==
    LET err == StoreError(cal, uid, rid, range)
        s == cal.series[uid]
    IN  IF err # "" THEN Rejected(err, cal)
        ELSE IF rid = None
        THEN Applied([cal EXCEPT !.series = WithoutSeries(cal.series, uid)])
        ELSE IF range = "THIS_AND_FUTURE"
        THEN Applied([cal EXCEPT !.series[uid] = Truncated(s, rid)])
        ELSE Applied([cal EXCEPT !.series[uid] =
                        Series(s.master,
                               {o \in s.overrides : o.recurrence_id # rid},
                               s.exdates \cup {rid})])

\* EventStore.edit
EventStore_edit(cal, uid, new, rid, range) ==
    LET err == StoreError(cal, uid, rid, range)
        s == cal.series[uid]
    IN  IF err # "" THEN Rejected(err, cal)
        ELSE IF rid = None
        THEN Applied([cal EXCEPT !.series[uid].master =
                        Event(uid, new.summary, new.start, new.end, new.rrule, None)])
        ELSE IF range = "THIS_AND_FUTURE"
        THEN Applied([cal EXCEPT !.series =
                        WithSeries(WithSeries(cal.series, uid, Truncated(s, rid)),
                                   new.uid, Series(new, {}, {}))])
        ELSE Applied([cal EXCEPT !.series[uid] =
                        Series(s.master,
                               {o \in s.overrides : o.recurrence_id # rid}
                                 \cup {Event(uid, new.summary, new.start, new.end, None, rid)},
                               s.exdates)])

(***************************************************************************)
(* _parse_event.  kwargs is [uid, summary, dtstart, dtend, rrule]: uid 0   *)
(* for "not given", rrule the RRULE tokens (<<>> for none).  fresh is the  *)
(* uid Event's uid factory would give.                                     *)
(***************************************************************************)
\* the uid factory gives a uid that is in no calendar: uids being names
\* only, the least unused one stands for it
FreshUid(cal) ==
    LET free == Uids \ DOMAIN cal.series
    IN  IF free = {} THEN MaxUid + 1
        ELSE CHOOSE u \in free : \A v \in free : u <= v

\* whether Recur.from_rrule accepts the text
RuleOk(tokens) ==
    /\ Len(tokens) \in {2, 4}
    /\ tokens[1] = "FREQ" /\ tokens[2] = "DAILY"
    /\ Len(tokens) = 4 => tokens[3] \in {"COUNT", "UNTIL"}

\* Recur.from_rrule
from_rrule(tokens) ==
    Daily(IF Len(tokens) = 4 /\ tokens[3] = "COUNT" THEN tokens[4] ELSE 0,
          IF Len(tokens) = 4 /\ tokens[3] = "UNTIL" THEN tokens[4] ELSE None)

\* dt_util.as_local(value).replace(tzinfo=None) for an aware date-time
Floating(v) ==
    IF IsDateTime(v) /\ v.tz # "floating"
    THEN DateTime(as_local(v).t, "floating")
    ELSE v

\* a slip that would let mixed date / date-time fields through
_parse_event_unchecked(kwargs, fresh) ==
    IF kwargs.rrule # <<>> /\ ~RuleOk(kwargs.rrule)
    THEN [ok |-> FALSE, err |-> "ValueError", event |-> None]
    ELSE [ok |-> TRUE, err |-> "",
          event |-> Event(IF kwargs.uid = 0 THEN fresh ELSE kwargs.uid,
                          kwargs.summary, Floating(kwargs.dtstart),
                          Floating(kwargs.dtend),
                          IF kwargs.rrule # <<>> THEN from_rrule(kwargs.rrule)
                          ELSE None,
                          None)]

_parse_event(kwargs, fresh) ==
    IF kwargs.rrule # <<>> /\ ~RuleOk(kwargs.rrule)
    THEN [ok |-> FALSE, err |-> "ValueError", event |-> None]
    ELSE LET start == Floating(kwargs.dtstart)
             end == Floating(kwargs.dtend)
         IN  IF start.kind # end.kind
             THEN [ok |-> FALSE, err |-> "vol.Invalid", event |-> None]
             ELSE [ok |-> TRUE, err |-> "",
                   event |-> Event(IF kwargs.uid = 0 THEN fresh ELSE kwargs.uid,
                                   kwargs.summary, start, end,
                                   IF kwargs.rrule # <<>> THEN from_rrule(kwargs.rrule)
                                   ELSE None,
                                   None)]

(***************************************************************************)
(* Coroutines.  A task is one run of a coroutine of the entity: task 0 is  *)
(* async_added_to_hass, tasks 1 .. MaxTasks are service calls (local       *)
(* entity) or the tasks the refresh timer creates (remote entity).  pc is  *)
(* the await the task is suspended at.                                     *)
(***************************************************************************)
TaskIds == 0..MaxTasks

IdleTask ==
    [op |-> "none", pc |-> "idle", inm |-> "None",
     text |-> None, job |-> None, content |-> None, nstores |-> 0,
     replaced |-> FALSE, stored |-> FALSE]

\* a coroutine that returned or raised: its locals are gone
DoneTask == [IdleTask EXCEPT !.pc = "done"]

\* what the caller of a coroutine gets when it ends: the operation and "ok",
\* "not_modified" or the exception raised
Ended(op, outcome) == [call |-> op, error |-> outcome, events |-> <<>>]

\* a coroutine object is created for a call or a timer tick: the first slot
\* not yet used (slot 0 is the coroutine of async_added_to_hass)
NewTask(t) ==
    /\ t # 0
    /\ tasks[t].pc = "idle"
    /\ \A u \in 1..(t - 1) : tasks[u].pc # "idle"

SuspensionPoints == {"fetch", "parse", "serialize", "store", "update_state"}

NoReturn == [call |-> "none", error |-> "", events |-> <<>>]

\* ---- the inputs of the model ----
Fl(t) == DateTime(t, "floating")

\* what the store holds when a local entity is set up
LocalText ==
    [valid |-> TRUE, prodid |-> PRODID,
     comps |-> <<Series(Event(1, "a", Fl(0), Fl(60), Daily(3, None), None), {}, {}),
                 Series(Event(2, "a", Date(0), Date(1), None, None), {}, {})>>]

StoredTexts == {EmptyText, LocalText, BadText}

\* what the remote url serves: the text and the ETag header ("None": no
\* header, "": a header with an empty value)
RemoteResources ==
    {[text |-> [valid |-> TRUE, prodid |-> "remote",
                comps |-> <<Series(Event(1, "a", Fl(0), Fl(60), None, None), {}, {})>>],
      etag |-> "e1"],
     [text |-> [valid |-> TRUE, prodid |-> "remote",
                comps |-> <<Series(Event(1, "b", Fl(0), Fl(0), Daily(2, None), None), {}, {})>>],
      etag |-> ""],
     [text |-> BadText, etag |-> "e3"]}

StatusCodes == {200, 203, 302, 304, 404, 500}

CreateInputs ==
    {[uid |-> 1, summary |-> "a", dtstart |-> Fl(0), dtend |-> Fl(60), rrule |-> <<>>],
     [uid |-> 0, summary |-> "a", dtstart |-> DateTime(0, "utc"),
      dtend |-> DateTime(60, "utc"), rrule |-> <<"FREQ", "DAILY", "COUNT", 2>>],
     [uid |-> 0, summary |-> "a", dtstart |-> Date(0), dtend |-> Fl(60), rrule |-> <<>>],
     [uid |-> 0, summary |-> "a", dtstart |-> Date(1), dtend |-> Date(1),
      rrule |-> <<"FREQ">>]}

UpdateInputs ==
    {[uid |-> 0, summary |-> "b", dtstart |-> Fl(30), dtend |-> Fl(90), rrule |-> <<>>],
     [uid |-> 0, summary |-> "b", dtstart |-> Fl(30), dtend |-> Date(1), rrule |-> <<>>]}

\* recurrence_id arguments: the second occurrence of series 1 of LocalText,
\* and a time that is no occurrence
SecondOcc == Fl(MinutesPerDay)
NoOcc == Fl(MinutesPerDay \div 2)

\* (uid, recurrence_id, recurrence_range) of the delete and update calls:
\* a whole series, one occurrence, this and future, and the calls the Event
\* Store rejects (no recurrence_id for the range, an unknown occurrence, a
\* recurrence_id for an event that does not recur, a uid that may be unknown)
CallTargets ==
    {<<1, None, "">>, <<2, None, "">>, <<1, SecondOcc, "">>,
     <<1, SecondOcc, "THIS_AND_FUTURE">>, <<1, None, "THIS_AND_FUTURE">>,
     <<1, NoOcc, "">>, <<2, SecondOcc, "">>, <<MaxUid, None, "">>}

NowValues == {DateTime(90, "local")}
QueryRanges == {<<DateTime(0, "local"), DateTime(2 * MinutesPerDay, "local")>>}

(***************************************************************************)
(* async_setup_entry                                                       *)
(***************************************************************************)
\* up to the first await: the remote entity is built and handed over with no
\* await; for the local one store.async_load is called
async_setup_entry ==
    /\ setup = "unset"
    /\ IF kind = "remote"
       THEN setup' = "ready" /\ UNCHANGED loadCalls
       ELSE setup' = "load" /\ loadCalls' = loadCalls + 1
    /\ returned' = NoReturn
    /\ UNCHANGED <<kind, ics, calendar, _event, etag, trackFetch, removed,
                   persisted, tasks, dispEvent, dispOut, entries, flowResult>>

\* store.async_load returns the stored text; the parse is handed to the
\* executor
async_setup_entry_loaded ==
    /\ setup = "load"
    /\ ics' = persisted
    /\ setup' = "parse"
    /\ UNCHANGED <<kind, calendar, _event, etag, trackFetch, removed, persisted,
                   loadCalls, tasks, returned, dispEvent, dispOut,
                   entries, flowResult>>

\* the executor job returns: calendar_from_ics raised, or the calendar is
\* stamped and the entity is built and handed over
async_setup_entry_parsed ==
    /\ setup = "parse"
    /\ IF ParseFails(ics)
       THEN setup' = "failed" /\ UNCHANGED calendar
       ELSE /\ setup' = "ready"
            /\ calendar' = [calendar_from_ics(ics) EXCEPT !.prodid = PRODID]
    /\ ics' = None
    /\ UNCHANGED <<kind, _event, etag, trackFetch, removed, persisted,
                   loadCalls, tasks, returned, dispEvent, dispOut,
                   entries, flowResult>>

\* an exception delivered at either await (a timeout, a cancellation, an
\* error of the store) ends the setup with no entity
async_setup_entry_raised ==
    /\ setup \in {"load", "parse"}
    /\ setup' = "failed"
    /\ ics' = None
    /\ UNCHANGED <<kind, calendar, _event, etag, trackFetch, removed, persisted,
                   loadCalls, tasks, returned, dispEvent, dispOut,
                   entries, flowResult>>

(***************************************************************************)
(* Queries: ReadOnlyLocalCalendarEntity.async_get_events / async_update    *)
(* and RemoteCalendarEntity.async_update                                   *)
(***************************************************************************)
\* the slip of taking the last of the active events for the next one
NextEvent_last(cal, now) ==
    LET events == active_after(cal, now)
    IN  IF events # <<>> THEN _get_calendar_event(events[Len(events)]) ELSE None

\* the value async_update leaves in _event
NextEvent(cal, now) ==
    LET events == active_after(cal, now)
    IN  IF events # <<>> THEN _get_calendar_event(events[1]) ELSE None

\* the entity's async_update at time now: the remote entity returns at once
\* while it has no calendar
UpdatedEvent(now) ==
    IF kind = "remote" /\ calendar = None THEN _event
    ELSE NextEvent(calendar, now)

async_get_events(a, b) ==
    /\ setup = "ready" /\ ~removed
    /\ returned' =
         IF calendar = None
         THEN [call |-> "get_events", error |-> "AttributeError", events |-> <<>>]
         ELSE LET events == overlapping(calendar, a, b)
              IN  [call |-> "get_events", error |-> "",
                   events |-> [i \in 1..Len(events) |-> _get_calendar_event(events[i])]]
    /\ UNCHANGED <<kind, setup, calendar, _event, etag, trackFetch, removed,
                   persisted, loadCalls, tasks, dispEvent, dispOut,
                   entries, flowResult, ics>>

async_update(now) ==
    /\ setup = "ready" /\ ~removed
    /\ _event' = UpdatedEvent(now)
    /\ returned' = [call |-> "update", error |-> "", events |-> <<>>]
    /\ UNCHANGED <<kind, setup, calendar, etag, trackFetch, removed, persisted,
                   loadCalls, tasks, dispEvent, dispOut,
                   entries, flowResult, ics>>

(***************************************************************************)
(* RemoteCalendarEntity                                                    *)
(***************************************************************************)
\* _fetch_calendar_and_update up to its first await: the If-None-Match header
\* is added when _etag is truthy (neither None nor the empty string) and the
\* request is sent
BeginFetch(t, op) ==
    /\ tasks' = [tasks EXCEPT ![t] =
                   [IdleTask EXCEPT !.op = op, !.pc = "fetch",
                      !.inm = IF etag \in {"None", ""} THEN "None" ELSE etag]]
    /\ returned' = NoReturn
    /\ UNCHANGED <<kind, setup, calendar, _event, etag, trackFetch, removed,
                   persisted, loadCalls, dispEvent, dispOut,
                   entries, flowResult, ics>>

\* async_added_to_hass: the first fetch runs in the coroutine itself
async_added_to_hass ==
    /\ kind = "remote" /\ setup = "ready" /\ ~removed
    /\ tasks[0].pc = "idle"
    /\ BeginFetch(0, "added")

\* the interval timer fires: the callback creates a task for
\* _fetch_calendar_and_update and returns; the task has not run yet
TimerTick(t) ==
    /\ NewTask(t)
    /\ kind = "remote" /\ trackFetch = "active"
    /\ tasks' = [tasks EXCEPT ![t] =
                   [IdleTask EXCEPT !.op = "refresh", !.pc = "created"]]
    /\ returned' = NoReturn
    /\ UNCHANGED <<kind, setup, calendar, _event, etag, trackFetch, removed,
                   persisted, loadCalls, dispEvent, dispOut,
                   entries, flowResult, ics>>

\* the event loop runs the task the timer created, whatever happened to the
\* entity in between
RefreshStart(t) ==
    /\ tasks[t].pc = "created"
    /\ BeginFetch(t, "refresh")

\* the timer registered once the coroutine of async_added_to_hass gets past
\* its await of _fetch_calendar_and_update
Tracking(t) == IF tasks[t].op = "added" THEN "active" ELSE trackFetch

\* Response.raise_for_status raises unless the status is 2xx
is_success(status) == 200 <= status /\ status <= 299

\* the slip of recording the entity tag before the status is looked at
FetchResponse_etag_first(t, status, r) ==
    /\ tasks[t].pc = "fetch"
    /\ etag' = r.etag
    /\ IF status = 304
       THEN /\ tasks' = [tasks EXCEPT ![t] = DoneTask]
            /\ returned' = Ended(tasks[t].op, "not_modified")
            /\ trackFetch' = Tracking(t)
       ELSE IF ~is_success(status)
       THEN /\ tasks' = [tasks EXCEPT ![t] = DoneTask]
            /\ returned' = Ended(tasks[t].op, "HTTPStatusError")
            /\ UNCHANGED trackFetch
       ELSE /\ tasks' = [tasks EXCEPT ![t].pc = "parse", ![t].text = r.text]
            /\ returned' = NoReturn
            /\ UNCHANGED trackFetch
    /\ UNCHANGED <<kind, setup, calendar, _event, removed, persisted, loadCalls,
                   dispEvent, dispOut,
                   entries, flowResult, ics>>

\* the response arrives: status, and for a 2xx the resource r served (the
\* code looks at nothing else of a 304 or of an error response)
FetchResponse(t, status, r) ==
    /\ tasks[t].pc = "fetch"
    /\ IF status = 304
       THEN /\ tasks' = [tasks EXCEPT ![t] = DoneTask]
            /\ returned' = Ended(tasks[t].op, "not_modified")
            /\ trackFetch' = Tracking(t)
            /\ UNCHANGED etag
       ELSE IF ~is_success(status)
       THEN /\ tasks' = [tasks EXCEPT ![t] = DoneTask]
            /\ returned' = Ended(tasks[t].op, "HTTPStatusError")
            /\ UNCHANGED <<etag, trackFetch>>
       ELSE /\ etag' = r.etag
            /\ tasks' = [tasks EXCEPT ![t].pc = "parse", ![t].text = r.text]
            /\ returned' = NoReturn
            /\ UNCHANGED trackFetch
    /\ UNCHANGED <<kind, setup, calendar, _event, removed, persisted, loadCalls,
                   dispEvent, dispOut,
                   entries, flowResult, ics>>

\* the slip of stamping the product identifier only after the next await:
\* the calendar is published as parsed
ParseDone_unstamped(t) ==
    /\ tasks[t].pc = "parse"
    /\ IF ParseFails(tasks[t].text)
       THEN /\ tasks' = [tasks EXCEPT ![t] = DoneTask]
            /\ returned' = Ended(tasks[t].op, "CalendarParseError")
            /\ UNCHANGED calendar
       ELSE /\ calendar' = calendar_from_ics(tasks[t].text)
            /\ tasks' = [tasks EXCEPT ![t].pc = "serialize", ![t].text = None,
                                      ![t].job = calendar',
                                      ![t].replaced = TRUE]
            /\ returned' = NoReturn
    /\ UNCHANGED <<kind, setup, _event, etag, trackFetch, removed, persisted,
                   loadCalls, dispEvent, dispOut,
                   entries, flowResult, ics>>

\* the executor job calendar_from_ics ends: the calendar is replaced and
\* stamped, and the job calendar_to_ics is started on it
ParseDone(t) ==
    /\ tasks[t].pc = "parse"
    /\ IF ParseFails(tasks[t].text)
       THEN /\ tasks' = [tasks EXCEPT ![t] = DoneTask]
            /\ returned' = Ended(tasks[t].op, "CalendarParseError")
            /\ UNCHANGED calendar
       ELSE /\ calendar' = [calendar_from_ics(tasks[t].text) EXCEPT !.prodid = PRODID]
            /\ tasks' = [tasks EXCEPT ![t].pc = "serialize", ![t].text = None,
                                      ![t].job = calendar', ![t].replaced = TRUE]
            /\ returned' = NoReturn
    /\ UNCHANGED <<kind, setup, _event, etag, trackFetch, removed, persisted,
                   loadCalls, dispEvent, dispOut,
                   entries, flowResult, ics>>

\* the executor job calendar_to_ics ends: store.async_store is called
SerializeDone(t) ==
    /\ tasks[t].pc = "serialize"
    /\ tasks' = [tasks EXCEPT ![t].pc = "store", ![t].job = None,
                              ![t].content = calendar_to_ics(tasks[t].job),
                              ![t].nstores = @ + 1]
    /\ returned' = NoReturn
    /\ UNCHANGED <<kind, setup, calendar, _event, etag, trackFetch, removed,
                   persisted, loadCalls, dispEvent, dispOut,
                   entries, flowResult, ics>>

async_will_remove_from_hass ==
    /\ kind = "remote" /\ setup = "ready" /\ ~removed
    /\ tasks[0].pc = "done"
    /\ removed' = TRUE
    /\ trackFetch' = IF trackFetch # "None" THEN "cancelled" ELSE trackFetch
    /\ returned' = NoReturn
    /\ UNCHANGED <<kind, setup, calendar, _event, etag, persisted, loadCalls,
                   tasks, dispEvent, dispOut,
                   entries, flowResult, ics>>

(***************************************************************************)
(* Steps shared by the refresh and the mutations of the local entity       *)
(***************************************************************************)
\* store.async_store returns: the text is on disk
StoreDone(t) ==
    /\ tasks[t].pc = "store"
    /\ persisted' = tasks[t].content
    /\ tasks' = [tasks EXCEPT ![t].pc = "update_state", ![t].content = None,
                              ![t].stored = TRUE]
    /\ returned' = NoReturn
    /\ UNCHANGED <<kind, setup, calendar, _event, etag, trackFetch, removed,
                   loadCalls, dispEvent, dispOut,
                   entries, flowResult, ics>>

\* async_update_ha_state(force_refresh=True) runs async_update and returns
UpdateState(t, now) ==
    /\ tasks[t].pc = "update_state"
    /\ _event' = UpdatedEvent(now)
    /\ tasks' = [tasks EXCEPT ![t] = DoneTask]
    /\ trackFetch' = Tracking(t)
    /\ returned' = Ended(tasks[t].op, "ok")
    /\ UNCHANGED <<kind, setup, calendar, etag, removed, persisted, loadCalls,
                   dispEvent, dispOut,
                   entries, flowResult, ics>>

\* the await the task is suspended at raises: the awaited call failed or
\* timed out, or the task was cancelled
Abort(t) ==
    /\ tasks[t].pc \in SuspensionPoints
    /\ tasks' = [tasks EXCEPT ![t] = DoneTask]
    /\ returned' = Ended(tasks[t].op, "aborted")
    /\ UNCHANGED <<kind, setup, calendar, _event, etag, trackFetch, removed,
                   persisted, loadCalls, dispEvent, dispOut,
                   entries, flowResult, ics>>

(***************************************************************************)
(* LocalCalendarEntity                                                     *)
(***************************************************************************)
\* the slip of leaving out the call of _async_store after a mutation
Storing_skipped(op, cal) ==
    [IdleTask EXCEPT !.op = op, !.pc = "update_state", !.replaced = TRUE]

\* a mutation succeeded: _async_store serializes the calendar and calls
\* store.async_store
Storing(op, cal) ==
    [IdleTask EXCEPT !.op = op, !.pc = "store", !.content = calendar_to_ics(cal),
                     !.nstores = 1, !.replaced = TRUE]

LocalCall(t) ==
    /\ NewTask(t)
    /\ kind = "local" /\ setup = "ready" /\ ~removed

\* the slip of persisting although EventStore.add raised
async_create_event_always_store(t, kwargs) ==
    /\ LocalCall(t)
    /\ Uids \ DOMAIN calendar.series # {}
    /\ LET p == _parse_event(kwargs, FreshUid(calendar))
           r == EventStore_add(calendar, p.event)
       IN  IF ~p.ok
           THEN /\ tasks' = [tasks EXCEPT ![t] = DoneTask]
                /\ returned' = Ended("create", p.err)
                /\ UNCHANGED calendar
           ELSE /\ calendar' = r.cal
                /\ tasks' = [tasks EXCEPT ![t] = Storing("create", r.cal)]
                /\ returned' = IF r.ok THEN NoReturn ELSE Ended("create", r.err)
    /\ UNCHANGED <<kind, setup, _event, etag, trackFetch, removed, persisted,
                   loadCalls, dispEvent, dispOut,
                   entries, flowResult, ics>>

async_create_event(t, kwargs) ==
    /\ LocalCall(t)
    /\ Uids \ DOMAIN calendar.series # {}
    /\ LET p == _parse_event(kwargs, FreshUid(calendar))
           r == EventStore_add(calendar, p.event)
       IN  IF ~p.ok
           THEN /\ tasks' = [tasks EXCEPT ![t] = DoneTask]
                /\ returned' = Ended("create", p.err)
                /\ UNCHANGED calendar
           ELSE IF ~r.ok
           THEN /\ tasks' = [tasks EXCEPT ![t] = DoneTask]
                /\ returned' = Ended("create", r.err)
                /\ UNCHANGED calendar
           ELSE /\ calendar' = r.cal
                /\ tasks' = [tasks EXCEPT ![t] = Storing("create", r.cal)]
                /\ returned' = NoReturn
    /\ UNCHANGED <<kind, setup, _event, etag, trackFetch, removed, persisted,
                   loadCalls, dispEvent, dispOut,
                   entries, flowResult, ics>>

\* the slip of persisting whether or not the Event Store accepted the call
async_delete_event_always_store(t, uid, rid, range) ==
    /\ LocalCall(t)
    /\ LET r == EventStore_delete(calendar, uid, rid,
                  IF range = "THIS_AND_FUTURE" THEN "THIS_AND_FUTURE" ELSE "NONE")
       IN  /\ calendar' = r.cal
           /\ tasks' = [tasks EXCEPT ![t] = Storing("delete", r.cal)]
           /\ returned' = IF r.ok THEN NoReturn
                          ELSE Ended("delete", "HomeAssistantError")
    /\ UNCHANGED <<kind, setup, _event, etag, trackFetch, removed, persisted,
                   loadCalls, dispEvent, dispOut,
                   entries, flowResult, ics>>

\* the slip of not handing the recurrence range on to the Event Store
async_delete_event_no_range(t, uid, rid, range) ==
    /\ LocalCall(t)
    /\ LET r == EventStore_delete(calendar, uid, rid, "NONE")
       IN  IF ~r.ok
           THEN /\ tasks' = [tasks EXCEPT ![t] = DoneTask]
                /\ returned' = Ended("delete", "HomeAssistantError")
                /\ UNCHANGED calendar
           ELSE /\ calendar' = r.cal
                /\ tasks' = [tasks EXCEPT ![t] = Storing("delete", r.cal)]
                /\ returned' = NoReturn
    /\ UNCHANGED <<kind, setup, _event, etag, trackFetch, removed, persisted,
                   loadCalls, dispEvent, dispOut,
                   entries, flowResult, ics>>

async_delete_event(t, uid, rid, range) ==
    /\ LocalCall(t)
    /\ LET r == EventStore_delete(calendar, uid, rid,
                  IF range = "THIS_AND_FUTURE" THEN "THIS_AND_FUTURE" ELSE "NONE")
       IN  IF ~r.ok
           THEN /\ tasks' = [tasks EXCEPT ![t] = DoneTask]
                /\ returned' = Ended("delete", "HomeAssistantError")
                /\ UNCHANGED calendar
           ELSE /\ calendar' = r.cal
                /\ tasks' = [tasks EXCEPT ![t] = Storing("delete", r.cal)]
                /\ returned' = NoReturn
    /\ UNCHANGED <<kind, setup, _event, etag, trackFetch, removed, persisted,
                   loadCalls, dispEvent, dispOut,
                   entries, flowResult, ics>>

\* the slip of not handing the recurrence_id on to the Event Store
async_update_event_no_rid(t, uid, kwargs, rid, range) ==
    /\ LocalCall(t)
    /\ Uids \ DOMAIN calendar.series # {}
    /\ LET p == _parse_event(kwargs, FreshUid(calendar))
           r == EventStore_edit(calendar, uid, p.event, None,
                  IF range = "THIS_AND_FUTURE" THEN "THIS_AND_FUTURE" ELSE "NONE")
       IN  IF ~p.ok
           THEN /\ tasks' = [tasks EXCEPT ![t] = DoneTask]
                /\ returned' = Ended("update", p.err)
                /\ UNCHANGED calendar
           ELSE IF ~r.ok
           THEN /\ tasks' = [tasks EXCEPT ![t] = DoneTask]
                /\ returned' = Ended("update", "HomeAssistantError")
                /\ UNCHANGED calendar
           ELSE /\ calendar' = r.cal
                /\ tasks' = [tasks EXCEPT ![t] = Storing("update", r.cal)]
                /\ returned' = NoReturn
    /\ UNCHANGED <<kind, setup, _event, etag, trackFetch, removed, persisted,
                   loadCalls, dispEvent, dispOut,
                   entries, flowResult, ics>>

async_update_event(t, uid, kwargs, rid, range) ==
    /\ LocalCall(t)
    /\ Uids \ DOMAIN calendar.series # {}
    /\ LET p == _parse_event(kwargs, FreshUid(calendar))
           r == EventStore_edit(calendar, uid, p.event, rid,
                  IF range = "THIS_AND_FUTURE" THEN "THIS_AND_FUTURE" ELSE "NONE")
       IN  IF ~p.ok
           THEN /\ tasks' = [tasks EXCEPT ![t] = DoneTask]
                /\ returned' = Ended("update", p.err)
                /\ UNCHANGED calendar
           ELSE IF ~r.ok
           THEN /\ tasks' = [tasks EXCEPT ![t] = DoneTask]
                /\ returned' = Ended("update", "HomeAssistantError")
                /\ UNCHANGED calendar
           ELSE /\ calendar' = r.cal
                /\ tasks' = [tasks EXCEPT ![t] = Storing("update", r.cal)]
                /\ returned' = NoReturn
    /\ UNCHANGED <<kind, setup, _event, etag, trackFetch, removed, persisted,
                   loadCalls, dispEvent, dispOut,
                   entries, flowResult, ics>>

(***************************************************************************)
(* The specification of one entity                                         *)
(***************************************************************************)
Init ==
    /\ kind \in {"local", "remote"}
    /\ setup = "unset"
    /\ ics = None
    /\ calendar = None
    /\ _event = None
    /\ etag = "None"
    /\ trackFetch = "None"
    /\ removed = FALSE
    /\ persisted \in (IF kind = "local" THEN StoredTexts ELSE {EmptyText})
    /\ loadCalls = 0
    /\ tasks = [t \in TaskIds |-> IdleTask]
    /\ returned = NoReturn
    /\ dispEvent = None
    /\ dispOut = None
    /\ entries = <<>> /\ flowResult = "none"

Next ==
    \/ async_setup_entry
    \/ async_setup_entry_loaded
    \/ async_setup_entry_parsed
    \/ async_setup_entry_raised
    \/ \E q \in QueryRanges : async_get_events(q[1], q[2])
    \/ \E now \in NowValues : async_update(now)
    \/ async_added_to_hass
    \/ \E t \in TaskIds : TimerTick(t)
    \/ \E t \in TaskIds : RefreshStart(t)
    \/ \E t \in TaskIds, status \in StatusCodes, r \in RemoteResources :
         FetchResponse(t, status, r)
    \/ \E t \in TaskIds : ParseDone(t)
    \/ \E t \in TaskIds : SerializeDone(t)
    \/ \E t \in TaskIds : StoreDone(t)
    \/ \E t \in TaskIds, now \in NowValues : UpdateState(t, now)
    \/ \E t \in TaskIds : Abort(t)
    \/ async_will_remove_from_hass
    \/ \E t \in TaskIds, kwargs \in CreateInputs :
         async_create_event(t, kwargs)
    \/ \E t \in TaskIds, c \in CallTargets :
         async_delete_event(t, c[1], c[2], c[3])
    \/ \E t \in TaskIds, c \in CallTargets, kwargs \in UpdateInputs :
         async_update_event(t, c[1], kwargs, c[2], c[3])

Spec == Init /\ [][Next]_vars

(***************************************************************************)
(* The specification of _get_calendar_event alone: Init draws a valid      *)
(* Event (start and end of one kind, both naive or both aware), the action *)
(* applies the function.                                                   *)
(***************************************************************************)
Slots == {15 * k : k \in 0..MaxSlot}
AwareZones == {"utc", "east", "local"}
DispDates == {Date(d) : d \in 0..MaxDay}
DispRules == {None, [freq |-> "DAILY", count |-> 2, until |-> None]}

DispEvents ==
    LET mk(s, e, r) == [uid |-> "u1", summary |-> "a", start |-> s, end |-> e,
                        rrule |-> r, recurrence_id |-> None]
    IN  {mk(s, e, r) : s \in DispDates, e \in DispDates, r \in DispRules}
        \cup {mk(DateTime(s, "floating"), DateTime(e, "floating"), None) :
                s \in Slots, e \in Slots}
        \cup {mk(DateTime(s, zs), DateTime(e, ze), None) :
                s \in Slots, e \in Slots, zs \in AwareZones, ze \in AwareZones}

InitDisplay ==
    /\ dispEvent \in DispEvents
    /\ dispOut = None
    /\ entries = <<>> /\ flowResult = "none"
    /\ kind = "local" /\ setup = "unset" /\ ics = None /\ calendar = None /\ _event = None
    /\ etag = "None" /\ trackFetch = "None" /\ removed = FALSE
    /\ persisted = EmptyText /\ loadCalls = 0
    /\ tasks = [t \in TaskIds |-> IdleTask]
    /\ returned = NoReturn

Display ==
    /\ dispOut = None
    /\ dispOut' = _get_calendar_event(dispEvent)
    /\ UNCHANGED <<dispEvent, entityVars, entries, flowResult>>

NextDisplay == Display

SpecDisplay == InitDisplay /\ [][NextDisplay]_vars

(***************************************************************************)
(* The specification of the queries alone: Init draws the calendar of a    *)
(* local entity that is set up, the actions are async_get_events and       *)
(* async_update at every range and time of the grid.  The host hands the   *)
(* queries times in the local zone.                                        *)
(***************************************************************************)
QueryTimes == {DateTime(15 * k, "local") : k \in 0..(2 * MaxSlot)}

WideRanges == {q \in QueryTimes \X QueryTimes : q[1].t < q[2].t}

\* a non-recurring event, naive or in UTC, of positive or zero length
QueryEvents ==
    {Event(1, "a", DateTime(p[1], z), DateTime(p[2], z), None, None) :
       p \in {p \in Slots \X Slots : p[1] <= p[2]}, z \in {"floating", "utc"}}

\* a daily series of two occurrences
QuerySeries == Series(Event(2, "b", Fl(30), Fl(45), Daily(2, None), None), {}, {})

OneSeries(s) == WithSeries(<<>>, s.master.uid, s)

QueryCalendars ==
    {Calendar(PRODID, OneSeries(Series(ev, {}, {}))) : ev \in QueryEvents}
    \cup {Calendar(PRODID,
                   WithSeries(OneSeries(Series(ev, {}, {})), 2, QuerySeries)) :
            ev \in {ev \in QueryEvents : ev.start.tz = "floating"}}
    \cup {Calendar(PRODID, <<>>),
          Calendar(PRODID, OneSeries(Series(Event(1, "a", Date(0), Date(1), None, None),
                                            {}, {})))}

InitQuery ==
    /\ kind = "local" /\ setup = "ready" /\ ics = None
    /\ calendar \in QueryCalendars
    /\ persisted = calendar_to_ics(calendar)
    /\ loadCalls = 1
    /\ _event = None /\ etag = "None" /\ trackFetch = "None" /\ removed = FALSE
    /\ tasks = [t \in TaskIds |-> IdleTask]
    /\ returned = NoReturn
    /\ dispEvent = None /\ dispOut = None
    /\ entries = <<>> /\ flowResult = "none"

NextQuery ==
    \/ \E q \in WideRanges : async_get_events(q[1], q[2])
    \/ \E now \in QueryTimes : async_update(now)

SpecQuery == InitQuery /\ [][NextQuery]_vars

(***************************************************************************)
(* The specification of the mutations of one recurring series: Init draws  *)
(* the calendar of a local entity that is set up (a daily series, each     *)
(* occurrence plain, overridden or excluded, beside an event that does not *)
(* recur), the actions are async_delete_event and async_update_event on    *)
(* every occurrence and range, and the awaits that follow.                 *)
(***************************************************************************)
\* the master of the series, and its occurrence k
StoreMaster == Event(1, "a", Fl(0), Fl(60), Daily(MaxOcc, None), None)
OccId(k) == Shift(StoreMaster.start, k)

\* the override of occurrence k: new summary, 15 minutes later
OverrideAt(k) ==
    Event(1, "o", Shift(Fl(15), k), Shift(Fl(75), k), None, OccId(k))

\* each occurrence is "plain", "override" or "excluded"
StoreSeries(f) ==
    Series(StoreMaster,
           {OverrideAt(k) : k \in {k \in DOMAIN f : f[k] = "override"}},
           {OccId(k) : k \in {k \in DOMAIN f : f[k] = "excluded"}})

StoreCalendars ==
    {Calendar(PRODID,
              WithSeries(OneSeries(StoreSeries(f)), 2,
                         Series(Event(2, "a", Date(0), Date(1), None, None), {}, {}))) :
       f \in [0..(MaxOcc - 1) -> {"plain", "override", "excluded"}]}

\* (uid, recurrence_id, recurrence_range) of the calls
StoreTargets ==
    {<<1, OccId(k), range>> : k \in 0..(MaxOcc - 1), range \in {"", "THIS_AND_FUTURE"}}
    \cup {<<1, None, "">>, <<2, None, "">>}

StoreInputs ==
    {[uid |-> 0, summary |-> "b", dtstart |-> Fl(30), dtend |-> Fl(90), rrule |-> <<>>]}

InitStore ==
    /\ kind = "local" /\ setup = "ready" /\ ics = None
    /\ calendar \in StoreCalendars
    /\ persisted = calendar_to_ics(calendar)
    /\ loadCalls = 1
    /\ _event = None /\ etag = "None" /\ trackFetch = "None" /\ removed = FALSE
    /\ tasks = [t \in TaskIds |-> IdleTask]
    /\ returned = NoReturn
    /\ dispEvent = None /\ dispOut = None
    /\ entries = <<>> /\ flowResult = "none"

NextStore ==
    \/ \E c \in StoreTargets : async_delete_event(1, c[1], c[2], c[3])
    \/ \E c \in StoreTargets, kwargs \in StoreInputs :
         async_update_event(1, c[1], kwargs, c[2], c[3])
    \/ StoreDone(1)
    \/ \E now \in NowValues : UpdateState(1, now)

SpecStore == InitStore /\ [][NextStore]_vars

(***************************************************************************)
(* The config flow (src/local_calendar/config_flow.py).  A calendar name   *)
(* is a sequence of characters; a config entry is [title, data].           *)
(***************************************************************************)
WordChars == {"A", "a"}
Lower(c) == IF c = "A" THEN "a" ELSE c

Unknown == <<"u", "n", "k", "n", "o", "w", "n">>

\* the slug of text from character i on: letters in lower case, each run of
\* other characters between two letters one separator, none at the ends
RECURSIVE SlugFrom(_, _, _, _)
SlugFrom(text, i, out, gap) ==
    IF i > Len(text) THEN out
    ELSE IF text[i] \in WordChars
    THEN SlugFrom(text, i + 1,
                  out \o (IF gap /\ out # <<>> THEN <<"_">> ELSE <<>>)
                      \o <<Lower(text[i])>>,
                  FALSE)
    ELSE SlugFrom(text, i + 1, out, TRUE)

\* homeassistant.util.slugify
slugify(text) ==
    IF text = <<>> THEN <<>>
    ELSE LET slug == SlugFrom(text, 1, <<>>, FALSE)
         IN  IF slug = <<>> THEN Unknown ELSE slug

\* whether _async_abort_entries_match({CONF_STORAGE_KEY: key}) aborts
\* the flow: some entry of the domain has this storage key in its data
entries_match(key) ==
    \E i \in 1..Len(entries) : entries[i].data.storage_key = key

\* names that share a slug ("A", "a", "a ", " a"; "Aa", "aa"; "a a", "A  a"),
\* names without a letter and the empty name
CalendarNames ==
    {<<>>, <<" ">>, <<" ", " ">>,
     <<"A">>, <<"a">>, <<"a", " ">>, <<" ", "a">>,
     <<"A", "a">>, <<"a", "a">>,
     <<"a", " ", "a">>, <<"A", " ", " ", "a">>}
CalendarUrls == {"", "http://x"}

\* what the form submits: the name and the optional url ("" when left out)
UserInputs ==
    {[calendar_name |-> n, calendar_url |-> u] : n \in CalendarNames, u \in CalendarUrls}

\* the slip of matching the existing entries on the name instead of the key
async_step_user_name_match(user_input) ==
    /\ Len(entries) < MaxEntries
    /\ LET key == slugify(user_input.calendar_name)
       IN  IF \E i \in 1..Len(entries) :
                 entries[i].data.calendar_name = user_input.calendar_name
           THEN /\ flowResult' = "abort"
                /\ UNCHANGED entries
           ELSE /\ flowResult' = "create_entry"
                /\ entries' = Append(entries,
                     [title |-> user_input.calendar_name,
                      data |-> [calendar_name |-> user_input.calendar_name,
                                calendar_url |-> user_input.calendar_url,
                                storage_key |-> key]])
    /\ UNCHANGED <<dispEvent, dispOut, entityVars>>

\* async_step_user(user_input) with the form filled in
async_step_user(user_input) ==
    /\ Len(entries) < MaxEntries
    /\ LET key == slugify(user_input.calendar_name)
       IN  IF entries_match(key)
           THEN /\ flowResult' = "abort"
                /\ UNCHANGED entries
           ELSE /\ flowResult' = "create_entry"
                /\ entries' = Append(entries,
                     [title |-> user_input.calendar_name,
                      data |-> [calendar_name |-> user_input.calendar_name,
                                calendar_url |-> user_input.calendar_url,
                                storage_key |-> key]])
    /\ UNCHANGED <<dispEvent, dispOut, entityVars>>

\* async_step_user(None): the form is shown
async_show_form ==
    /\ flowResult' = "form"
    /\ UNCHANGED <<entries, dispEvent, dispOut, entityVars>>

InitConfig ==
    /\ entries = <<>> /\ flowResult = "none"
    /\ kind = "local" /\ setup = "unset" /\ ics = None /\ calendar = None /\ _event = None
    /\ etag = "None" /\ trackFetch = "None" /\ removed = FALSE
    /\ persisted = EmptyText /\ loadCalls = 0
    /\ tasks = [t \in TaskIds |-> IdleTask]
    /\ returned = NoReturn
    /\ dispEvent = None /\ dispOut = None

NextConfig ==
    \/ async_show_form
    \/ \E user_input \in UserInputs : async_step_user(user_input)

SpecConfig == InitConfig /\ [][NextConfig]_vars

(***************************************************************************)
(* Properties                                                              *)
(***************************************************************************)
InFlight == {t \in TaskIds : tasks[t].pc \in SuspensionPoints}

\* no task calls store.async_store in the step
NoStoreCall == \A u \in TaskIds : tasks'[u].nstores <= tasks[u].nstores

\* the step leaves the aggregate, the entity tag, the persisted text and the
\* published event as they are and calls no store
NoMutation ==
    /\ calendar' = calendar
    /\ etag' = etag
    /\ persisted' = persisted
    /\ _event' = _event
    /\ NoStoreCall

\* C1: a refresh whose fetch is answered 304 Not Modified mutates nothing:
\* neither the step that sends the request nor the step that handles the
\* response changes the aggregate, the entity tag, the persisted text or the
\* published event, the store is not called, and the refresh ends there
\* as not modified.
C1_NotModifiedNoMutation ==
    [][\A t \in TaskIds :
         /\ (BeginFetch(t, "added") \/ BeginFetch(t, "refresh")) => NoMutation
         /\ \A r \in RemoteResources :
              FetchResponse(t, 304, r) =>
                /\ NoMutation
                /\ tasks'[t].pc = "done"
                /\ returned' = Ended(tasks[t].op, "not_modified")]_vars

\* a timer refresh has just been answered 304 while the entity holds a
\* calendar and an entity tag
C1_Witness ==
    /\ returned = Ended("refresh", "not_modified")
    /\ calendar # None
    /\ etag # "None"

\* C2: a refresh whose response status is neither 2xx nor 304 fails and
\* leaves the aggregate, the persisted text and the entity tag as they were,
\* whatever refreshes ran before.
C2_ErrorStatusNoMutation ==
    [][\A t \in TaskIds, status \in StatusCodes, r \in RemoteResources :
         (FetchResponse(t, status, r) /\ status # 304 /\ ~is_success(status)) =>
           /\ NoMutation
           /\ tasks'[t].pc = "done"
           /\ returned' = Ended(tasks[t].op, "HTTPStatusError")]_vars

\* a timer refresh has just failed on its status while the entity holds a
\* calendar that is persisted
C2_Witness ==
    /\ returned = Ended("refresh", "HTTPStatusError")
    /\ calendar # None
    /\ persisted = calendar_to_ics(calendar)

\* C3: after an aborted refresh (nothing else running) memory and disk
\* agree: either the aggregate was not replaced and the persisted text is
\* the old one, or both are the new calendar.
C3_AbortIsNotPartial ==
    (kind = "remote" /\ returned.error = "aborted" /\ InFlight = {}) =>
      \/ calendar = None /\ persisted = EmptyText
      \/ calendar # None /\ persisted = calendar_to_ics(calendar)

\* the range as async_delete_event / async_update_event hand it on
RangeValue(range) == IF range = "THIS_AND_FUTURE" THEN "THIS_AND_FUTURE" ELSE "NONE"

\* C4: a delete or update the Event Store rejects raises to the caller in
\* the call itself (no await is reached), leaves the aggregate as it was,
\* calls no store and refreshes no state.
C4_RejectedCallNoMutation ==
    [][\A t \in TaskIds, c \in CallTargets :
         /\ (/\ async_delete_event(t, c[1], c[2], c[3])
             /\ StoreError(calendar, c[1], c[2], RangeValue(c[3])) # "") =>
              /\ NoMutation
              /\ tasks'[t].pc = "done"
              /\ returned' = Ended("delete", "HomeAssistantError")
         /\ \A kwargs \in UpdateInputs :
              (/\ async_update_event(t, c[1], kwargs, c[2], c[3])
               /\ _parse_event(kwargs, FreshUid(calendar)).ok
               /\ StoreError(calendar, c[1], c[2], RangeValue(c[3])) # "") =>
                /\ NoMutation
                /\ tasks'[t].pc = "done"
                /\ returned' = Ended("update", "HomeAssistantError")]_vars

\* a delete has just been rejected on a calendar that holds events
C4_Witness ==
    /\ returned = Ended("delete", "HomeAssistantError")
    /\ calendar # None
    /\ DOMAIN calendar.series # {}

\* C5: a create of well-formed fields whose uid is already in the calendar
\* fails with DuplicateUidError, leaves the calendar as it was and persists
\* nothing.
C5_DuplicateUidNoMutation ==
    [][\A t \in TaskIds, kwargs \in CreateInputs :
         (/\ async_create_event(t, kwargs)
          /\ _parse_event(kwargs, FreshUid(calendar)).ok
          /\ kwargs.uid \in DOMAIN calendar.series) =>
           /\ NoMutation
           /\ tasks'[t].pc = "done"
           /\ returned' = Ended("create", "DuplicateUidError")]_vars

\* a create has just failed on its uid
C5_Witness ==
    /\ returned = Ended("create", "DuplicateUidError")
    /\ calendar # None
    /\ 1 \in DOMAIN calendar.series

\* the fields of a create / update are malformed: start and end of mixed
\* kinds, or a recurrence rule that does not parse
Malformed(kwargs) ==
    \/ Floating(kwargs.dtstart).kind # Floating(kwargs.dtend).kind
    \/ kwargs.rrule # <<>> /\ ~RuleOk(kwargs.rrule)

\* C6: a create or update with malformed fields is rejected before any
\* mutation: the call raises (vol.Invalid for mixed start / end kinds) without
\* reaching the Event Store, whose answer for the target is never the error
\* raised, and the aggregate and the persisted text are untouched.
C6_MalformedRejectedFirst ==
    [][\A t \in TaskIds :
         /\ \A kwargs \in CreateInputs :
              (async_create_event(t, kwargs) /\ Malformed(kwargs)) =>
                /\ NoMutation
                /\ tasks'[t].pc = "done"
                /\ returned'.call = "create"
                /\ returned'.error \in {"vol.Invalid", "ValueError"}
                /\ Floating(kwargs.dtstart).kind # Floating(kwargs.dtend).kind
                     => returned'.error = "vol.Invalid"
         /\ \A c \in CallTargets, kwargs \in UpdateInputs :
              (async_update_event(t, c[1], kwargs, c[2], c[3]) /\ Malformed(kwargs)) =>
                /\ NoMutation
                /\ tasks'[t].pc = "done"
                /\ returned' = Ended("update", "vol.Invalid")]_vars

\* an update with malformed fields has just been rejected on a calendar
\* that holds events
C6_Witness ==
    /\ returned = Ended("update", "vol.Invalid")
    /\ calendar # None
    /\ DOMAIN calendar.series # {}

\* C7: store.async_load is called only when the local entity is constructed;
\* store.async_store is called only by an operation whose mutation (or
\* calendar replacement) succeeded, once, with the serialization of the
\* aggregate as that operation left it; the persisted text changes only to
\* the text of such a call; and an operation completes successfully only
\* after its one store call returned.
C7_StoreOnlyAfterSuccess ==
    [][/\ loadCalls' # loadCalls =>
            (kind = "local" /\ setup = "unset" /\ loadCalls = 0 /\ loadCalls' = 1)
       /\ persisted' # persisted =>
            \E t \in TaskIds : tasks[t].pc = "store" /\ persisted' = tasks[t].content
       /\ \A t \in TaskIds :
            /\ tasks'[t].nstores # tasks[t].nstores /\ tasks'[t].pc # "done" =>
                 /\ tasks[t].nstores = 0 /\ tasks'[t].nstores = 1
                 /\ tasks'[t].pc = "store"
                 /\ tasks'[t].replaced
                 /\ tasks'[t].content =
                      calendar_to_ics(IF kind = "local" THEN calendar' ELSE tasks[t].job)
            /\ (tasks[t].pc = "parse" /\ tasks'[t].pc = "serialize") =>
                 tasks'[t].job = calendar'
            /\ (tasks[t].pc # "done" /\ tasks'[t].pc = "done" /\ returned'.error = "ok") =>
                 (tasks[t].nstores = 1 /\ tasks[t].stored /\ tasks[t].replaced)
            /\ (tasks[t].pc # "done" /\ tasks'[t].pc = "done" /\ returned'.error # "ok") =>
                 (tasks[t].nstores = 1 => tasks[t].replaced)]_vars

\* an update has just completed and the persisted text is the
\* serialization of the calendar it left
C7_Witness ==
    /\ returned = Ended("update", "ok")
    /\ persisted = calendar_to_ics(calendar)
    /\ loadCalls = 1

\* C8: no two mutations of the aggregate (create, delete, update, refresh)
\* are in progress at once.
C8_MutationsSerialized == Cardinality(InFlight) <= 1

\* the calendars a complete Event Store operation of the model's inputs
\* makes of cal
CompleteResults(cal) ==
    {EventStore_add(cal, _parse_event(k, FreshUid(cal)).event).cal :
       k \in {k \in CreateInputs : _parse_event(k, FreshUid(cal)).ok}}
    \cup {EventStore_delete(cal, c[1], c[2], RangeValue(c[3])).cal : c \in CallTargets}
    \cup {EventStore_edit(cal, c[1], _parse_event(k, FreshUid(cal)).event,
                          c[2], RangeValue(c[3])).cal :
            c \in CallTargets,
            k \in {k \in UpdateInputs : _parse_event(k, FreshUid(cal)).ok}}

\* the calendars a refresh can publish: a served text, parsed, stamped
RemoteCalendars ==
    {[calendar_from_ics(r.text) EXCEPT !.prodid = PRODID] :
       r \in {r \in RemoteResources : ~ParseFails(r.text)}}

\* C9: what a query reads at any await of a mutation or refresh is a whole
\* aggregate: the calendar of a remote entity is absent or a fully parsed
\* calendar with the product identifier set, the calendar of a local entity
\* changes only from one complete Event Store result to the next, and
\* async_get_events returns the events of the calendar as it stands.
C9_ReadsSeeWholeAggregate ==
    /\ [](kind = "remote" => (calendar = None \/ calendar \in RemoteCalendars))
    /\ [](returned.call = "get_events" /\ returned.error = "" =>
            \E q \in QueryRanges :
              LET events == overlapping(calendar, q[1], q[2])
              IN  returned.events =
                    [i \in 1..Len(events) |-> _get_calendar_event(events[i])])
    /\ [][(kind = "local" /\ setup = "ready" /\ calendar' # calendar) =>
            calendar' \in CompleteResults(calendar)]_vars

\* async_get_events has just run while a refresh that replaced the calendar
\* has not persisted it yet
C9_Witness ==
    /\ returned.call = "get_events" /\ returned.error = ""
    /\ Len(returned.events) > 0
    /\ \E t \in TaskIds : tasks[t].pc \in {"serialize", "store"} /\ tasks[t].op = "refresh"

\* the instant of a date-time, in minutes UTC (a naive one is local time)
Instant(v) == v.t - UtcOffset(IF v.tz = "floating" THEN "local" ELSE v.tz)

\* C10: the event returned for a stored event: for date-times, start and end
\* are the same instants in the local zone, except that an end at or before
\* the start becomes start + 30 minutes; for dates, start and end are
\* returned as they are, except that an end before the start becomes start +
\* 1 day.  The stored event is not modified.
C10_DisplayNormalization ==
    /\ [](dispOut # None =>
            IF IsDateTime(dispEvent.start)
            THEN /\ dispOut.start.tz = "local" /\ dispOut.end.tz = "local"
                 /\ Instant(dispOut.start) = Instant(dispEvent.start)
                 /\ Instant(dispOut.end) =
                      IF Instant(dispEvent.end) <= Instant(dispEvent.start)
                      THEN Instant(dispEvent.start) + ThirtyMinutes
                      ELSE Instant(dispEvent.end)
            ELSE /\ dispOut.start = dispEvent.start
                 /\ dispOut.end =
                      IF dispEvent.end.d < dispEvent.start.d
                      THEN Date(dispEvent.start.d + OneDay)
                      ELSE dispEvent.end)
    /\ [][dispEvent' = dispEvent]_vars

\* a date-time event whose end is at its start, in another zone, was
\* returned with a 30 minute duration
C10_Witness ==
    /\ dispOut # None
    /\ IsDateTime(dispEvent.start)
    /\ dispEvent.start.tz # dispEvent.end.tz
    /\ Instant(dispEvent.end) = Instant(dispEvent.start)
    /\ dispOut.end.t = dispOut.start.t + ThirtyMinutes

\* C11: every event returned for a stored event has its end strictly after
\* its start: an end equal to the start has become start + 30 minutes
\* (date-times) or start + 1 day (dates).
C11_EndStrictlyAfterStart ==
    dispOut # None =>
      IF IsDateTime(dispOut.start)
      THEN Instant(dispOut.end) > Instant(dispOut.start)
      ELSE dispOut.end.d > dispOut.start.d

\* the events of the calendar that do not recur
PlainEvents(cal) ==
    {cal.series[u].master : u \in {u \in DOMAIN cal.series :
                                     cal.series[u].master.rrule = None}}

\* some instant lies in [start, end) of the event and in [a, b)
Meets(ev, a, b) ==
    \E x \in LocalWall(a)..(LocalWall(b) - 1) :
      LocalWall(ev.start) <= x /\ x < LocalWall(ev.end)

OccurrencesOf(cal, uid) == {o \in Occurrences(cal) : o.uid = uid}

\* a range that covers every occurrence of the calendar
FullSpan(cal) ==
    LET lo == CHOOSE x \in {LocalWall(o.start) : o \in Occurrences(cal)} :
                \A o \in Occurrences(cal) : x <= LocalWall(o.start)
        hi == CHOOSE x \in {LocalWall(o.end) : o \in Occurrences(cal)} :
                \A o \in Occurrences(cal) : LocalWall(o.end) <= x
    IN  <<DateTime(lo, "local"), DateTime(hi + 1, "local")>>

\* what an occurrence shows: its fields and times, without the rule of the
\* series it comes from
Shown(o) ==
    [uid |-> o.uid, summary |-> o.summary, start |-> o.start, end |-> o.end,
     recurrence_id |-> o.recurrence_id]

\* the items of a sequence
Range(seq) == {seq[i] : i \in 1..Len(seq)}

\* C13: a delete with recurrence_id X and range THIS_AND_FUTURE that the
\* Event Store accepts removes X and every later occurrence: overlapping over
\* the full span of the calendar as it was then returns, of the series,
\* exactly its former occurrences before X, each starting before X; no
\* override or exclusion at or after X is left; the other events are as
\* they were; and the result is handed to the store.
C13_DeleteThisAndFuture ==
    [][\A c \in StoreTargets :
         (/\ async_delete_event(1, c[1], c[2], c[3])
          /\ c[3] = "THIS_AND_FUTURE" /\ c[2] # None
          /\ StoreError(calendar, c[1], c[2], "THIS_AND_FUTURE") = "") =>
           LET span == FullSpan(calendar)
               after == Range(overlapping(calendar', span[1], span[2]))
           IN  /\ {Shown(o) : o \in {o \in after : o.uid = c[1]}} =
                    {Shown(o) : o \in {o \in OccurrencesOf(calendar, c[1]) :
                       LocalWall(o.recurrence_id) < LocalWall(c[2])}}
               /\ \A o \in after :
                    o.uid = c[1] => LocalWall(o.start) < LocalWall(c[2])
               /\ {o \in after : o.uid # c[1]} =
                    {o \in Occurrences(calendar) : o.uid # c[1]}
               /\ c[1] \in DOMAIN calendar'.series =>
                    /\ \A o \in calendar'.series[c[1]].overrides :
                         LocalWall(o.recurrence_id) < LocalWall(c[2])
                    /\ \A x \in calendar'.series[c[1]].exdates :
                         LocalWall(x) < LocalWall(c[2])
               /\ tasks'[1].pc = "store"
               /\ tasks'[1].content = calendar_to_ics(calendar')]_vars

\* a delete of "this and future" at the second occurrence has completed:
\* the series ends before it, the override of the first occurrence is left
\* and the result is persisted
C13_Witness ==
    /\ returned = Ended("delete", "ok")
    /\ 1 \in DOMAIN calendar.series
    /\ calendar.series[1].master.rrule.until = Shift(OccId(1), -1)
    /\ calendar.series[1].overrides = {OverrideAt(0)}
    /\ persisted = calendar_to_ics(calendar)

\* C14: an update with a recurrence_id and no range that the Event Store
\* accepts makes an override seen at that occurrence only: afterwards the
\* occurrence at recurrence_id carries the new summary, start and end, every
\* sibling occurrence is as it was (one not overridden before has the
\* master's summary and its own times), the other events are as they were,
\* and the result is handed to the store.
C14_EditOneOccurrence ==
    [][\A c \in StoreTargets, kwargs \in StoreInputs :
         (/\ async_update_event(1, c[1], kwargs, c[2], c[3])
          /\ c[3] = "" /\ c[2] # None
          /\ StoreError(calendar, c[1], c[2], "NONE") = "") =>
           LET new == _parse_event(kwargs, FreshUid(calendar)).event
               s == calendar.series[c[1]]
               after == OccurrencesOf(calendar', c[1])
           IN  /\ {Shown(o) : o \in {o \in after : o.recurrence_id = c[2]}} =
                    {[uid |-> c[1], summary |-> new.summary, start |-> new.start,
                      end |-> new.end, recurrence_id |-> c[2]]}
               /\ {Shown(o) : o \in {o \in after : o.recurrence_id # c[2]}} =
                    {Shown(o) : o \in {o \in OccurrencesOf(calendar, c[1]) :
                                         o.recurrence_id # c[2]}}
               /\ \A o \in after :
                    (/\ o.recurrence_id # c[2]
                     /\ \A v \in s.overrides : v.recurrence_id # o.recurrence_id) =>
                      /\ o.summary = s.master.summary
                      /\ o.start = o.recurrence_id
                      /\ LocalWall(o.end) - LocalWall(o.start) =
                           LocalWall(s.master.end) - LocalWall(s.master.start)
               /\ {o \in Occurrences(calendar') : o.uid # c[1]} =
                    {o \in Occurrences(calendar) : o.uid # c[1]}
               /\ tasks'[1].pc = "store"
               /\ tasks'[1].content = calendar_to_ics(calendar')]_vars

\* an update of the second occurrence alone has completed on a series of
\* plain occurrences: the calendar yields the new fields there and the
\* master's fields at the first and third occurrence
C14_Witness ==
    /\ returned = Ended("update", "ok")
    /\ 1 \in DOMAIN calendar.series
    /\ calendar.series[1].exdates = {}
    /\ calendar.series[1].overrides =
         {Event(1, "b", Fl(30), Fl(90), None, OccId(1))}
    /\ \E o \in OccurrencesOf(calendar, 1) : o.summary = "b" /\ o.recurrence_id = OccId(1)
    /\ \E o \in OccurrencesOf(calendar, 1) : o.summary = "a" /\ o.recurrence_id = OccId(0)
    /\ persisted = calendar_to_ics(calendar)

\* the occurrences of the calendar that end after now
EndingAfter(cal, now) ==
    {o \in Occurrences(cal) : LocalWall(o.end) > LocalWall(now)}

\* C15: async_update at time now publishes the occurrence that ends after
\* now and starts first among all such occurrences of all series, as
\* _get_calendar_event returns it, and publishes none exactly when no
\* occurrence ends after now.
C15_NextActiveEvent ==
    [][\A now \in QueryTimes :
         (async_update(now) /\ calendar # None) =>
           LET active == EndingAfter(calendar, now)
           IN  /\ _event' = None <=> active = {}
               /\ active # {} =>
                    \E o \in active :
                      /\ _event' = _get_calendar_event(o)
                      /\ \A o2 \in active :
                           LocalWall(o.start) <= LocalWall(o2.start)]_vars

\* async_update has just published the second occurrence of the daily
\* series of a calendar whose other event, and the first occurrence, ended
\* by now
C15_Witness ==
    /\ returned.call = "update"
    /\ calendar # None
    /\ DOMAIN calendar.series = {1, 2}
    /\ _event # None
    /\ _event.uid = 2
    /\ _event.start.t >= MinutesPerDay

\* C16: outside a refresh, an entity tag that is set is the tag of the
\* response the current calendar was parsed from; a refresh that fails in
\* its parse or persist step has not advanced the tag.
C16_TagMatchesCalendar ==
    (kind = "remote" /\ InFlight = {} /\ etag # "None") =>
      \E r \in RemoteResources :
        /\ r.etag = etag
        /\ ~ParseFails(r.text)
        /\ calendar = [calendar_from_ics(r.text) EXCEPT !.prodid = PRODID]

\* C17: no query of a remote entity is evaluated on an absent calendar:
\* async_get_events never fails for want of one, and async_update at a time
\* the calendar is absent leaves the published event alone.
C17_NoQueryOnAbsentCalendar ==
    kind = "remote" =>
      /\ ~(returned.call = "get_events" /\ returned.error = "AttributeError")
      /\ (returned.call = "update" /\ calendar = None) => _event = None

\* C18: once async_added_to_hass has ended, whatever the outcome of its
\* initial fetch, the periodic refresh is scheduled for as long as the
\* entity is not removed, so that a later refresh can populate a calendar
\* the initial fetch left absent.
C18_RefreshScheduledOnceAdded ==
    (kind = "remote" /\ tasks[0].pc = "done" /\ ~removed) => trackFetch = "active"

\* C19: once async_will_remove_from_hass has run, the entity mutates
\* nothing: no step sends the request of a refresh, replaces the calendar,
\* advances the entity tag, calls the store or changes the persisted text, a
\* refresh that was created or in flight at the removal included.
C19_NoMutationAfterRemoval ==
    [][removed =>
         /\ calendar' = calendar
         /\ etag' = etag
         /\ persisted' = persisted
         /\ NoStoreCall
         /\ \A t \in TaskIds :
              tasks[t].pc \in {"idle", "created"} =>
                tasks'[t].pc \in {"idle", "created"}]_vars

\* C20: no two config entries have the same storage key; the key of every
\* entry is the slug of its calendar name, recorded under storage_key, and
\* its title is the name; a submission whose key is that of an existing
\* entry is aborted and creates none, any other creates one entry.
C20_StorageKeysDistinct ==
    /\ [](\A i, j \in 1..Len(entries) :
            i # j => entries[i].data.storage_key # entries[j].data.storage_key)
    /\ [](\A i \in 1..Len(entries) :
            /\ entries[i].data.storage_key = slugify(entries[i].data.calendar_name)
            /\ entries[i].title = entries[i].data.calendar_name)
    /\ [][\A user_input \in UserInputs :
            async_step_user(user_input) =>
              IF \E i \in 1..Len(entries) :
                   entries[i].data.storage_key = slugify(user_input.calendar_name)
              THEN entries' = entries /\ flowResult' = "abort"
              ELSE /\ Len(entries') = Len(entries) + 1
                   /\ SubSeq(entries', 1, Len(entries)) = entries
                   /\ flowResult' = "create_entry"]_vars

\* a submission has just been aborted while the one entry, of name "A",
\* holds the storage key "a"
C20_Witness ==
    /\ flowResult = "abort"
    /\ Len(entries) = 1
    /\ entries[1].data.calendar_name = <<"A">>
    /\ entries[1].data.storage_key = <<"a">>

====
